---- MODULE Spec2Model ----
(***************************************************************************)
(* Model of the mower state machine of tondeuse/mow.py: a Mow owns a       *)
(* Position, a Direction and an optional Grid; it is driven by the setters, *)
(* rotate, associate_to_grid, advance and execute_path.                     *)
(***************************************************************************)
EXTENDS Integers, Sequences, FiniteSets, TLC

VARIABLES position, direction, grid, call, err, pre, prev, calls, ret, fleet

vars == <<position, direction, grid, call, err, pre, prev, calls, ret, fleet>>

----------------------------------------------------------------------------
(* Bounds of the explored inputs *)

MaxCoord == 2

MaxPathLen == 2

MaxOps == 2

Coords == (0 - 1)..MaxCoord

----------------------------------------------------------------------------
(* tondeuse/__init__.py : the two IntEnums *)

N == 0

E == 1

S == 2

W == 3

Direction == {N, E, S, W}

G == -1

D == 1

Rotation == {G, D}

RotationKeys == {"G", "D"}

\* Rotation[i] : lookup of an enum member by its key
RotationByKey(i) == IF i = "G" THEN G ELSE D

\* Direction.name used by __str__
DirectionName(d) ==
    CASE d = N -> "N"
      [] d = E -> "E"
      [] d = S -> "S"
      [] d = W -> "W"

----------------------------------------------------------------------------
(* Position *)

Position(x, y) == [x |-> x, y |-> y]

\* Position.__add__
add(a, b) == Position(a.x + b.x, a.y + b.y)

\* Position.coordinate
coordinate(p) == <<p.x, p.y>>

Positions == {Position(x, y) : x \in Coords, y \in Coords}

----------------------------------------------------------------------------
(* Grid *)

Grid(x_min, y_min, x_max, y_max) ==
    [x_min |-> x_min, y_min |-> y_min, x_max |-> x_max, y_max |-> y_max]

\* is_inbound with the upper bounds excluded
is_inbound_strict(g, pos) ==
    LET c == coordinate(pos)
        x == c[1]
        y == c[2]
    IN  /\ g.x_min <= x /\ x < g.x_max
        /\ g.y_min <= y /\ y < g.y_max

\* Grid.is_inbound
is_inbound(g, pos) ==
    LET c == coordinate(pos)
        x == c[1]
        y == c[2]
    IN  /\ g.x_min <= x /\ x <= g.x_max
        /\ g.y_min <= y /\ y <= g.y_max

\* The grids handed to associate_to_grid
Grids == {Grid(0, 0, 1, 1), Grid(0, 0, MaxCoord, 1), Grid(1, 0, MaxCoord, MaxCoord)}

\* Optional[Grid]: None is the empty tuple, a grid g is <<g>>
None == <<>>

Some(g) == <<g>>

TheGrid(og) == og[1]

----------------------------------------------------------------------------
(* Exceptions *)

NoError == [type |-> "", msg |-> ""]

GridPlacementException(msg) == [type |-> "GridPlacementException", msg |-> msg]

ValueError == [type |-> "ValueError", msg |-> "not a valid Direction"]

UnboundLocalError == [type |-> "UnboundLocalError", msg |-> "p"]

NotInGrid == GridPlacementException("Position does not belong to grid")

AlreadySet == GridPlacementException("One grid is already set")

NoGrid == GridPlacementException("No associated grid")

----------------------------------------------------------------------------
(* Mow: the operations as functions of the Mow's fields.  Each returns the  *)
(* fields after the call and the exception raised (NoError if none).        *)

Mow(p, d) == [position |-> p, direction |-> d, grid |-> None]

Returns(m) == [position |-> m.position, direction |-> m.direction,
               grid |-> m.grid, err |-> NoError]

Raises(m, e) == [position |-> m.position, direction |-> m.direction,
                 grid |-> m.grid, err |-> e]

Fields(r) == [position |-> r.position, direction |-> r.direction, grid |-> r.grid]

ResultOfCall(r) == [position |-> r.position, direction |-> r.direction,
                    grid |-> r.grid, err |-> r.err]

\* position setter refusing a position outside the grid of a Bound Mow
set_position_checked(m, pos) ==
    IF m.grid # None /\ ~is_inbound(TheGrid(m.grid), pos)
    THEN Raises(m, NotInGrid)
    ELSE Returns([m EXCEPT !.position = pos])

\* Mow.position setter
set_position(m, pos) == Returns([m EXCEPT !.position = pos])

\* Mow.direction setter
set_direction(m, d) == Returns([m EXCEPT !.direction = d])

\* rotate with the rotation subtracted instead of added
rotate_sign(m, way) ==
    LET v == (m.direction - way) % 4
    IN  IF v \in Direction
        THEN Returns([m EXCEPT !.direction = v])
        ELSE Raises(m, ValueError)

\* rotate with a remainder that keeps the sign of the dividend
rotate_rem(m, way) ==
    LET s == m.direction + way
        v == IF s < 0 THEN 0 - ((0 - s) % 4) ELSE s % 4
    IN  IF v \in Direction
        THEN Returns([m EXCEPT !.direction = v])
        ELSE Raises(m, ValueError)

\* rotate without the modulo
rotate_nowrap(m, way) ==
    LET v == m.direction + way
    IN  IF v \in Direction
        THEN Returns([m EXCEPT !.direction = v])
        ELSE Raises(m, ValueError)

\* Mow.rotate : Direction((self._direction + way) % 4)
rotate(m, way) ==
    LET v == (m.direction + way) % 4
    IN  IF v \in Direction
        THEN Returns([m EXCEPT !.direction = v])
        ELSE Raises(m, ValueError)

\* associate_to_grid without the "already set" check
associate_to_grid_rebind(m, g) ==
    IF ~is_inbound(g, m.position)
    THEN Raises(m, NotInGrid)
    ELSE Returns([m EXCEPT !.grid = Some(g)])

\* associate_to_grid storing the grid before the checks
associate_to_grid_early(m, g) ==
    LET m1 == [m EXCEPT !.grid = Some(g)]
    IN  IF ~is_inbound(g, m.position)
        THEN Raises(m1, NotInGrid)
        ELSE IF m.grid # None
             THEN Raises(m1, AlreadySet)
             ELSE Returns(m1)

\* associate_to_grid without the position check
associate_to_grid_anywhere(m, g) ==
    IF m.grid # None
    THEN Raises(m, AlreadySet)
    ELSE Returns([m EXCEPT !.grid = Some(g)])

\* Mow.associate_to_grid
associate_to_grid(m, g) ==
    IF ~is_inbound(g, m.position)
    THEN Raises(m, NotInGrid)
    ELSE IF m.grid # None
         THEN Raises(m, AlreadySet)
         ELSE Returns([m EXCEPT !.grid = Some(g)])

\* advance without the is_inbound test on the new position
advance_unchecked(m) ==
    IF m.grid = None
    THEN Raises(m, NoGrid)
    ELSE CASE m.direction = N -> Returns([m EXCEPT !.position = add(m.position, Position(0, 1))])
           [] m.direction = E -> Returns([m EXCEPT !.position = add(m.position, Position(1, 0))])
           [] m.direction = S -> Returns([m EXCEPT !.position = add(m.position, Position(0, -1))])
           [] m.direction = W -> Returns([m EXCEPT !.position = add(m.position, Position(-1, 0))])
           [] OTHER -> Raises(m, UnboundLocalError)

\* Mow.advance
advance(m) ==
    IF m.grid = None
    THEN Raises(m, NoGrid)
    ELSE IF m.direction \notin Direction
         THEN Raises(m, UnboundLocalError)
         ELSE LET p == CASE m.direction = N -> add(m.position, Position(0, 1))
                         [] m.direction = E -> add(m.position, Position(1, 0))
                         [] m.direction = S -> add(m.position, Position(0, -1))
                         [] m.direction = W -> add(m.position, Position(-1, 0))
              IN  IF is_inbound(TheGrid(m.grid), p)
                  THEN Returns([m EXCEPT !.position = p])
                  ELSE Returns(m)

\* The call execute_path makes for one character, as a mock of rotate and
\* advance would record it: the command, the fields it found, whether it moved
Called(i, m, r) ==
    <<[cmd |-> i, at |-> m.position, dir |-> m.direction,
       moved |-> r.position # m.position]>>

Outcome(r, made) == [position |-> r.position, direction |-> r.direction,
                     grid |-> r.grid, err |-> r.err, calls |-> made]

\* the match statement with lower-case commands accepted as well
command_upper(m, i) ==
    IF i \in {"G", "g"}
    THEN LET r == rotate(m, G) IN Outcome(r, Called("G", m, r))
    ELSE IF i \in {"D", "d"}
         THEN LET r == rotate(m, D) IN Outcome(r, Called("D", m, r))
         ELSE IF i \in {"A", "a"}
              THEN LET r == advance(m) IN Outcome(r, Called("A", m, r))
              ELSE Outcome(Returns(m), <<>>)

\* the match statement rejecting a character that is no command
command_strict(m, i) ==
    IF i \in RotationKeys
    THEN LET r == rotate(m, RotationByKey(i)) IN Outcome(r, Called(i, m, r))
    ELSE IF i = "A"
         THEN LET r == advance(m) IN Outcome(r, Called(i, m, r))
         ELSE Outcome(Raises(m, ValueError), <<>>)

\* the match statement catching the exception of advance
command_swallow(m, i) ==
    IF i \in RotationKeys
    THEN LET r == rotate(m, RotationByKey(i)) IN Outcome(r, Called(i, m, r))
    ELSE IF i = "A"
         THEN LET r == advance(m) IN Outcome(Returns(Fields(r)), Called(i, m, r))
         ELSE Outcome(Returns(m), <<>>)

\* Mow.execute_path : the match statement on one character i of the path
command(m, i) ==
    IF i \in RotationKeys
    THEN LET r == rotate(m, RotationByKey(i)) IN Outcome(r, Called(i, m, r))
    ELSE IF i = "A"
         THEN LET r == advance(m) IN Outcome(r, Called(i, m, r))
         ELSE Outcome(Returns(m), <<>>)

\* Mow.execute_path : the loop over the characters of path; an exception
\* raised by a command ends the loop with the fields as they are then
RECURSIVE path_loop(_, _, _)
path_loop(m, path, made) ==
    IF path = <<>>
    THEN Outcome(Returns(m), made)
    ELSE LET r == command(m, Head(path))
             made1 == made \o r.calls
         IN  IF r.err # NoError
             THEN Outcome(r, made1)
             ELSE path_loop(Fields(r), Tail(path), made1)

RECURSIVE Reverse(_)
Reverse(s) == IF s = <<>> THEN <<>> ELSE Append(Reverse(Tail(s)), Head(s))

\* execute_path looping over the path from its end
execute_path_reversed(m, path) == path_loop(m, Reverse(path), <<>>)

\* Mow.execute_path
execute_path(m, path) == path_loop(m, path, <<>>)

\* Mow.__str__
str(m) ==
    LET c == coordinate(m.position)
    IN  ToString(c[1]) \o " " \o ToString(c[2]) \o " " \o DirectionName(m.direction)

----------------------------------------------------------------------------
(* The paths handed to execute_path *)

Chars == {"G", "D", "A", "X"}

RECURSIVE SeqsUpTo(_, _)
SeqsUpTo(A, n) ==
    IF n = 0
    THEN {<<>>}
    ELSE LET shorter == SeqsUpTo(A, n - 1)
         IN  shorter \cup {Append(s, a) : s \in shorter, a \in A}

Paths == SeqsUpTo(Chars, MaxPathLen)

----------------------------------------------------------------------------
(* The state machine: one Mow, one call per step.  call records the last    *)
(* call and its arguments, err the exception it raised, pre the fields      *)
(* before it; prev records the rotation, if any, made by the call before    *)
(* the last one and the heading before that rotation.                       *)

Self == [position |-> position, direction |-> direction, grid |-> grid]

NoCall == [op |-> "__init__", way |-> 0, grid |-> None,
           pos |-> Position(0, 0), dir |-> N, path |-> <<>>]

NoPrev == [way |-> 0, direction |-> N]

\* the calls made by the last call, when it was execute_path
Made(r) == IF "calls" \in DOMAIN r THEN r.calls ELSE <<>>

\* the value returned by the last call: <<>> for None, <<v>> for v
NoValue == <<>>

\* a second Mow and the Grid two Mows share, for the specification of two Mows
NoFleet == [other |-> Mow(Position(0, 0), N), shared |-> Grid(0, 0, 1, 1),
            who |-> 0, inits |-> <<>>, logs |-> <<>>]

\* the rotation made by the call that is now the last one
ThisRotation ==
    IF call.op = "rotate"
    THEN [way |-> call.way, direction |-> pre.direction]
    ELSE NoPrev

Becomes(r, c) ==
    /\ position' = r.position
    /\ direction' = r.direction
    /\ grid' = r.grid
    /\ err' = r.err
    /\ call' = c
    /\ pre' = Self
    /\ prev' = ThisRotation
    /\ calls' = Made(r)
    /\ ret' = NoValue
    /\ fleet' = fleet

\* Mow.__init__
Init ==
    /\ position \in Positions
    /\ direction \in Direction
    /\ grid = None
    /\ call = NoCall
    /\ err = NoError
    /\ pre = Mow(position, direction)
    /\ prev = NoPrev
    /\ calls = <<>>
    /\ ret = NoValue
    /\ fleet = NoFleet

SetPosition ==
    \E p \in Positions :
        Becomes(set_position(Self, p), [NoCall EXCEPT !.op = "position", !.pos = p])

SetDirection ==
    \E d \in Direction :
        Becomes(set_direction(Self, d), [NoCall EXCEPT !.op = "direction", !.dir = d])

Rotate ==
    \E way \in Rotation :
        Becomes(rotate(Self, way), [NoCall EXCEPT !.op = "rotate", !.way = way])

AssociateToGrid ==
    \E g \in Grids :
        Becomes(associate_to_grid(Self, g),
                [NoCall EXCEPT !.op = "associate_to_grid", !.grid = Some(g)])

Advance ==
    Becomes(advance(Self), [NoCall EXCEPT !.op = "advance"])

ExecutePath ==
    \E path \in Paths :
        Becomes(execute_path(Self, path),
                [NoCall EXCEPT !.op = "execute_path", !.path = path])

Next ==
    \/ SetPosition
    \/ SetDirection
    \/ Rotate
    \/ AssociateToGrid
    \/ Advance
    \/ ExecutePath

Spec == Init /\ [][Next]_vars

----------------------------------------------------------------------------
(* execute_path as a function of the fields and of the path: the fields are *)
(* any a Mow can have (the setters reach them all), the path any string of  *)
(* commands, other upper-case letters and lower-case letters.               *)

PathChars == Chars \cup {"a", "g", "d"}

AllPaths == SeqsUpTo(PathChars, MaxPathLen + 1)

OptionalGrids == {None} \cup {Some(g) : g \in Grids}

InitFields ==
    /\ position \in Positions
    /\ direction \in Direction
    /\ grid \in OptionalGrids
    /\ call = NoCall
    /\ err = NoError
    /\ pre = Self
    /\ prev = NoPrev
    /\ calls = <<>>
    /\ ret = NoValue
    /\ fleet = NoFleet

ExecutePathOnce ==
    /\ call.op = "__init__"
    /\ \E path \in AllPaths :
           Becomes(execute_path(Self, path),
                   [NoCall EXCEPT !.op = "execute_path", !.path = path])

NextPath == ExecutePathOnce

SpecPath == InitFields /\ [][NextPath]_vars

----------------------------------------------------------------------------
(* Two Mows on one Grid, as in test_instruction: the first Mow is in        *)
(* position, direction and grid, the second in fleet.other; fleet.shared is *)
(* the Grid object both are associated to.  Each step is one method call on *)
(* one of the two; fleet.inits and fleet.logs keep, per Mow, the fields it  *)
(* was created with and the calls made on it.                               *)

SharedGrid == Grid(0, 0, 1, 1)

TwoOps ==
    {[NoCall EXCEPT !.op = "rotate", !.way = way] : way \in Rotation}
    \cup {[NoCall EXCEPT !.op = "advance"],
          [NoCall EXCEPT !.op = "associate_to_grid", !.grid = Some(SharedGrid)],
          [NoCall EXCEPT !.op = "execute_path", !.path = <<"A", "D", "A">>],
          [NoCall EXCEPT !.op = "position", !.pos = Position(1, 1)]}

\* the method call o made on the Mow whose fields are m
apply(m, o) ==
    CASE o.op = "rotate" -> rotate(m, o.way)
      [] o.op = "advance" -> advance(m)
      [] o.op = "associate_to_grid" -> associate_to_grid(m, TheGrid(o.grid))
      [] o.op = "execute_path" -> ResultOfCall(execute_path(m, o.path))
      [] o.op = "position" -> set_position(m, o.pos)

\* the fields kept on the class: the position written by one Mow is the
\* position of every Mow
method_call_class_fields(ms, i, o) ==
    LET r == apply(ms[i], o)
    IN  [mows |-> [j \in 1..2 |-> IF j = i
                                  THEN Fields(r)
                                  ELSE [ms[j] EXCEPT !.position = r.position]],
         err |-> r.err]

\* a method called on the i-th Mow: self is that Mow, whose fields are
\* instance attributes, and the method assigns to self only
method_call(ms, i, o) ==
    LET r == apply(ms[i], o)
    IN  [mows |-> [ms EXCEPT ![i] = Fields(r)], err |-> r.err]

InitTwo ==
    /\ position = Position(0, 0)
    /\ direction \in {N, E}
    /\ grid = None
    /\ call = NoCall
    /\ err = NoError
    /\ pre = Self
    /\ prev = NoPrev
    /\ calls = <<>>
    /\ ret = NoValue
    /\ \E d \in {N, W} :
           fleet = [other |-> Mow(Position(1, 0), d), shared |-> SharedGrid,
                    who |-> 0,
                    inits |-> <<Self, Mow(Position(1, 0), d)>>,
                    logs |-> <<(<<>>), (<<>>)>>]

TwoStep ==
    \E i \in 1..2, o \in TwoOps :
        /\ Len(fleet.logs[i]) < MaxOps
        /\ LET ms == <<Self, fleet.other>>
               r == method_call(ms, i, o)
           IN  /\ position' = r.mows[1].position
               /\ direction' = r.mows[1].direction
               /\ grid' = r.mows[1].grid
               /\ fleet' = [fleet EXCEPT !.other = r.mows[2], !.who = i,
                                         !.logs[i] = Append(@, o)]
               /\ call' = o
               /\ err' = r.err
               /\ pre' = ms[i]
               /\ prev' = NoPrev
               /\ calls' = <<>>
               /\ ret' = NoValue

NextTwo == TwoStep

SpecTwo == InitTwo /\ [][NextTwo]_vars

----------------------------------------------------------------------------
(* The Mow driven without the position setter once it holds a grid *)

SetPositionUnbound ==
    /\ grid = None
    /\ SetPosition

NextPlaced ==
    \/ SetPositionUnbound
    \/ SetDirection
    \/ Rotate
    \/ AssociateToGrid
    \/ Advance
    \/ ExecutePath

SpecPlaced == Init /\ [][NextPlaced]_vars

----------------------------------------------------------------------------
(* Grid.is_inbound called directly, as test_grid does, on the grids of the  *)
(* Mows, on a one-cell grid and on a grid whose bounds are inverted (the    *)
(* constructor validates nothing).                                          *)

QueryGrids == Grids \cup {Grid(1, 1, 1, 1), Grid(1, 1, 0, 0)}

IsInbound ==
    \E g \in QueryGrids, p \in Positions :
        /\ ret' = <<is_inbound(g, p)>>
        /\ call' = [NoCall EXCEPT !.op = "is_inbound", !.grid = Some(g), !.pos = p]
        /\ err' = NoError
        /\ pre' = Self
        /\ prev' = NoPrev
        /\ calls' = <<>>
        /\ UNCHANGED <<position, direction, grid, fleet>>

NextGrid ==
    \/ IsInbound
    \/ AssociateToGrid

SpecGrid == Init /\ [][NextGrid]_vars

----------------------------------------------------------------------------
(* The instruction scenarios of test_instruction: Mows created anywhere on  *)
(* the grid (0,0)-(5,5), associated to it and driven by the two paths.      *)

ScenarioMax == 5

ScenarioGrid == Grid(0, 0, ScenarioMax, ScenarioMax)

ScenarioPositions == {Position(x, y) : x \in 0..ScenarioMax, y \in 0..ScenarioMax}

Scenario1Path == <<"G", "A", "G", "A", "G", "A", "G", "A", "A">>

Scenario2Path == <<"A", "A", "D", "A", "A", "D", "A", "D", "D", "A">>

InitScenario ==
    /\ position \in ScenarioPositions
    /\ direction \in Direction
    /\ grid = None
    /\ call = NoCall
    /\ err = NoError
    /\ pre = Self
    /\ prev = NoPrev
    /\ calls = <<>>
    /\ ret = NoValue
    /\ fleet = NoFleet

AssociateScenario ==
    Becomes(associate_to_grid(Self, ScenarioGrid),
            [NoCall EXCEPT !.op = "associate_to_grid", !.grid = Some(ScenarioGrid)])

ExecuteScenario ==
    \E path \in {Scenario1Path, Scenario2Path} :
        Becomes(execute_path(Self, path),
                [NoCall EXCEPT !.op = "execute_path", !.path = path])

NextScenario ==
    \/ AssociateScenario
    \/ ExecuteScenario

SpecScenario == InitScenario /\ [][NextScenario]_vars

TypeOK ==
    /\ position \in [x : Int, y : Int]
    /\ direction \in Direction
    /\ grid = None \/ (Len(grid) = 1 /\ TheGrid(grid) \in Grids)
    /\ err \in {NoError, NotInGrid, AlreadySet, NoGrid, ValueError, UnboundLocalError}

----------------------------------------------------------------------------
(* Properties *)

Bound == grid # None

WasBound == pre.grid # None

\* Heading/step table of the data model: N->(0,1), E->(1,0), S->(0,-1), W->(-1,0)
step_vector(d) ==
    CASE d = N -> Position(0, 1)
      [] d = E -> Position(1, 0)
      [] d = S -> Position(0, -1)
      [] d = W -> Position(-1, 0)

\* The heading a quarter turn clockwise from d, as a table
Clockwise(d) ==
    CASE d = N -> E
      [] d = E -> S
      [] d = S -> W
      [] d = W -> N

\* The heading a quarter turn counter-clockwise from d, as a table
CounterClockwise(d) ==
    CASE d = N -> W
      [] d = W -> S
      [] d = S -> E
      [] d = E -> N

opposite(d) ==
    CASE d = N -> S
      [] d = S -> N
      [] d = E -> W
      [] d = W -> E

\* C1: in every reachable state, a Mow that holds a grid has its position
\* inbound for that grid, whatever operations (the position setter included)
\* led there.
C1_BoundInvariant ==
    Bound => is_inbound(TheGrid(grid), position)

\* C2: every call of associate_to_grid on a Mow that already holds a grid
\* fails with GridPlacementException, whatever grid is passed.
C2_OneShot ==
    (call.op = "associate_to_grid" /\ WasBound)
        => err.type = "GridPlacementException"

\* C2 witness: a second association with another grid that contains the
\* position has been refused.
C2_Witness ==
    /\ call.op = "associate_to_grid"
    /\ WasBound
    /\ call.grid # pre.grid
    /\ is_inbound(TheGrid(call.grid), pre.position)
    /\ err = AlreadySet

\* C3: once the grid is set to g it stays g in every later state, failed
\* calls included; it is never reset to None nor replaced.
C3_Permanent ==
    [][Bound => grid' = grid]_vars

\* C3 witness: a Bound Mow, moved by the setter and then offered another
\* grid, still holds its first grid.
C3_Witness ==
    /\ call.op = "associate_to_grid"
    /\ WasBound
    /\ call.grid # pre.grid
    /\ ~is_inbound(TheGrid(pre.grid), pre.position)
    /\ grid = pre.grid

\* C4: associate_to_grid called on a Mow that already holds a grid raises the
\* "One grid is already set" error for every grid argument, a grid that does
\* not contain the position included.
C4_AlreadySetMessage ==
    (call.op = "associate_to_grid" /\ WasBound) => err = AlreadySet

\* C5: advance on an Unbound Mow always raises "No associated grid", and a
\* failing advance or associate_to_grid leaves position, heading and grid
\* as they were before the call.
C5_FailureKeepsState ==
    /\ (call.op = "advance" /\ ~WasBound) => err = NoGrid
    /\ (call.op \in {"advance", "associate_to_grid"} /\ err # NoError)
           => Self = pre

\* C5 witness: an association refused for an out-of-grid position on an
\* Unbound Mow, which is left as it was.
C5_Witness ==
    /\ call.op = "associate_to_grid"
    /\ ~WasBound
    /\ err = NotInGrid
    /\ Self = pre

\* C6: associate_to_grid succeeds iff the Mow is Unbound and the grid
\* contains the position; on success the grid is exactly the one passed and
\* position and heading are unchanged; Unbound and outside the grid, it
\* fails with "Position does not belong to grid" and the Mow stays Unbound.
C6_Associate ==
    call.op = "associate_to_grid" =>
        LET g == TheGrid(call.grid)
            ok == ~WasBound /\ is_inbound(g, pre.position)
        IN  /\ (err = NoError) <=> ok
            /\ ok => /\ grid = Some(g)
                     /\ position = pre.position
                     /\ direction = pre.direction
            /\ (~WasBound /\ ~is_inbound(g, pre.position))
                   => (err = NotInGrid /\ grid = None)

\* C6 witness: a successful association.
C6_Witness ==
    /\ call.op = "associate_to_grid"
    /\ err = NoError
    /\ ~WasBound
    /\ grid = call.grid

\* C7: advance on a Bound Mow never raises; the position becomes
\* position + step_vector(heading) if the grid contains it and is unchanged
\* otherwise; heading and grid are unchanged.
C7_Advance ==
    (call.op = "advance" /\ WasBound) =>
        LET candidate == add(pre.position, step_vector(pre.direction))
        IN  /\ err = NoError
            /\ position = IF is_inbound(TheGrid(pre.grid), candidate)
                          THEN candidate
                          ELSE pre.position
            /\ direction = pre.direction
            /\ grid = pre.grid

\* C7 witness: an advance at the edge of the grid, from a position inside
\* it, that was a silent no-op.
C7_Witness ==
    /\ call.op = "advance"
    /\ WasBound
    /\ is_inbound(TheGrid(pre.grid), pre.position)
    /\ ~is_inbound(TheGrid(pre.grid), add(pre.position, step_vector(pre.direction)))
    /\ position = pre.position
    /\ err = NoError

\* C8: rotate always succeeds and sets the heading to the one whose ordinal
\* is (ordinal + delta) mod 4, delta(G) = -1 and delta(D) = +1, always one of
\* the four headings (N turned Left is W, W turned Right is N); position and
\* grid are unchanged.
C8_Rotate ==
    call.op = "rotate" =>
        /\ err = NoError
        /\ direction \in Direction
        /\ direction = IF call.way = D
                       THEN Clockwise(pre.direction)
                       ELSE CounterClockwise(pre.direction)
        /\ direction \in 0..3
        /\ \E q \in -1..1 : direction = pre.direction + call.way - 4 * q
        /\ position = pre.position
        /\ grid = pre.grid

\* C8 witness: N turned Left gave W.
C8_Witness ==
    /\ call.op = "rotate"
    /\ call.way = G
    /\ pre.direction = N
    /\ direction = W

\* C9: Left then Right, and Right then Left, bring the heading back to the
\* heading before the two rotations.
C9_Inverse ==
    (call.op = "rotate" /\ prev.way # 0 /\ call.way = 0 - prev.way)
        => direction = prev.direction

\* C9 witness: Left then Right from N, through W, back to N.
C9_Witness ==
    /\ call.op = "rotate"
    /\ prev.way = G
    /\ call.way = D
    /\ prev.direction = N
    /\ pre.direction = W
    /\ direction = N

\* C10: two consecutive Right rotations give the opposite heading.
C10_TwoRights ==
    (call.op = "rotate" /\ call.way = D /\ prev.way = D)
        => direction = opposite(prev.direction)

\* C10 witness: two Rights from W, through N, to E.
C10_Witness ==
    /\ call.op = "rotate"
    /\ call.way = D
    /\ prev.way = D
    /\ prev.direction = W
    /\ pre.direction = N
    /\ direction = E

----------------------------------------------------------------------------
(* Properties of execute_path *)

Commands == {"G", "D", "A"}

IsCommand(c) == c \in Commands

\* the path with every character that is no command removed
Recognized(path) == SelectSeq(path, IsCommand)

Count(seq, set) == Cardinality({k \in 1..Len(seq) : seq[k] \in set})

Cmds(made) == [k \in 1..Len(made) |-> made[k].cmd]

ResultOf(r) == [position |-> r.position, direction |-> r.direction,
                grid |-> r.grid, err |-> r.err]

Result == [position |-> position, direction |-> direction,
           grid |-> grid, err |-> err]

\* C11: executing a path gives the same final position, heading, grid and
\* error as executing the path with every character other than 'G', 'D',
\* 'A' removed, lower-case 'g', 'd', 'a' being such characters.
C11_IgnoresUnrecognized ==
    call.op = "execute_path" =>
        Result = ResultOf(execute_path(pre, Recognized(call.path)))

\* C11 witness: a path with a lower-case 'a' and another character that is
\* no command has moved a Bound Mow.
C11_Witness ==
    /\ call.op = "execute_path"
    /\ \E k \in 1..Len(call.path) : call.path[k] = "a"
    /\ \E k \in 1..Len(call.path) : call.path[k] = "X"
    /\ position # pre.position

\* C12: for every Mow, Unbound or Bound, and every path, rotate is applied
\* exactly once per 'G' or 'D' of the path and advance is attempted exactly
\* once per 'A' of the path.
C12_ConsumesAll ==
    call.op = "execute_path" =>
        /\ Count(Cmds(calls), RotationKeys) = Count(call.path, RotationKeys)
        /\ Count(Cmds(calls), {"A"}) = Count(call.path, {"A"})

\* C12 amended: for every Bound Mow and every path, and for every Unbound
\* Mow and every path without 'A', execute_path raises nothing, applies
\* rotate exactly once per 'G' or 'D' and attempts advance exactly once per
\* 'A' of the path.
C12_ConsumesAllUnlessRaised ==
    (call.op = "execute_path" /\ (WasBound \/ Count(call.path, {"A"}) = 0)) =>
        /\ err = NoError
        /\ Count(Cmds(calls), RotationKeys) = Count(call.path, RotationKeys)
        /\ Count(Cmds(calls), {"A"}) = Count(call.path, {"A"})

\* C12 witness: a path that starts with a character that is no command and
\* goes on with a rotation and an advance, all of them consumed.
C12_Witness ==
    /\ call.op = "execute_path"
    /\ WasBound
    /\ Len(call.path) = 3
    /\ call.path[1] = "X"
    /\ Cmds(calls) = <<"D", "A">>

\* the fields after the characters of path, the last character applied to
\* the fields after all the others, by single calls of rotate and advance
RECURSIVE After(_, _)
After(m, path) ==
    IF path = <<>>
    THEN m
    ELSE LET m0 == After(m, SubSeq(path, 1, Len(path) - 1))
             c == path[Len(path)]
         IN  CASE c = "G" -> Fields(rotate(m0, G))
               [] c = "D" -> Fields(rotate(m0, D))
               [] c = "A" -> Fields(advance(m0))
               [] OTHER -> m0

\* C16: for a Bound Mow the final state of execute_path is the one reached
\* by calling, left to right, rotate(G) per 'G', rotate(D) per 'D', advance
\* per 'A' and nothing for another character; and execute_path(p1 + p2)
\* ends as execute_path(p1) followed by execute_path(p2).
C16_InOrder ==
    (call.op = "execute_path" /\ WasBound) =>
        /\ err = NoError
        /\ Self = After(pre, call.path)
        /\ \A k \in 0..Len(call.path) :
               LET p1 == SubSeq(call.path, 1, k)
                   p2 == SubSeq(call.path, k + 1, Len(call.path))
               IN  Result = ResultOf(execute_path(Fields(execute_path(pre, p1)), p2))

\* C16 witness: a Bound Mow has turned Right and then moved, ending where
\* moving first and turning next would not have brought it.
C16_Witness ==
    /\ call.op = "execute_path"
    /\ WasBound
    /\ call.path = <<"D", "A">>
    /\ position # pre.position
    /\ Self # After(pre, <<"A", "D">>)

\* the heading after the rotations of path, by the table of quarter turns
RECURSIVE Turned(_, _)
Turned(d, path) ==
    IF path = <<>>
    THEN d
    ELSE Turned(IF Head(path) = "G" THEN CounterClockwise(d)
                ELSE IF Head(path) = "D" THEN Clockwise(d)
                ELSE d,
                Tail(path))

FirstAdvance(path) ==
    CHOOSE k \in 1..Len(path) :
        path[k] = "A" /\ \A j \in 1..(k - 1) : path[j] # "A"

\* C18: execute_path on an Unbound Mow whose path contains an 'A' raises
\* "No associated grid" at the first 'A': the rotations before it are
\* applied and stay, no character after it is processed, position and grid
\* are unchanged; a path without 'A' raises nothing.
C18_UnboundPath ==
    (call.op = "execute_path" /\ ~WasBound) =>
        IF Count(call.path, {"A"}) = 0
        THEN err = NoError
        ELSE LET f == FirstAdvance(call.path)
                 before == SubSeq(call.path, 1, f - 1)
             IN  /\ err = NoGrid
                 /\ position = pre.position
                 /\ grid = None
                 /\ direction = Turned(pre.direction, before)
                 /\ Cmds(calls) = Append(Recognized(before), "A")

\* C18 witness: Left, advance, Right on an Unbound Mow: the Left stays, the
\* Right is never made.
C18_Witness ==
    /\ call.op = "execute_path"
    /\ ~WasBound
    /\ call.path = <<"G", "A", "D">>
    /\ err = NoGrid
    /\ direction = CounterClockwise(pre.direction)
    /\ Len(calls) = 2

----------------------------------------------------------------------------
(* Scenarios *)

Scenario1Ran ==
    /\ call.op = "execute_path"
    /\ call.path = Scenario1Path
    /\ pre = [position |-> Position(1, 2), direction |-> N, grid |-> Some(ScenarioGrid)]

Scenario2Ran ==
    /\ call.op = "execute_path"
    /\ call.path = Scenario2Path
    /\ pre = [position |-> Position(3, 3), direction |-> E, grid |-> Some(ScenarioGrid)]

\* C13: a Mow at (1,2) heading N on Grid(0,0,5,5), after
\* execute_path("GAGAGAGAA"), is at (1,3) heading N and str gives "1 3 N".
C13_Scenario1 ==
    Scenario1Ran =>
        /\ err = NoError
        /\ position = Position(1, 3)
        /\ direction = N
        /\ str(Self) = "1 3 N"

\* C13 witness: scenario 1 has run, with its four Left turns and five
\* advances.
C13_Witness ==
    /\ Scenario1Ran
    /\ Len(calls) = Len(Scenario1Path)
    /\ position = Position(1, 3)

\* C14: a Mow at (3,3) heading E on Grid(0,0,5,5), after
\* execute_path("AADAADADDA"), is at (5,1) heading E and str gives "5 1 E",
\* and one advance of the path was attempted at the east edge and was a
\* no-op.
C14_Scenario2EdgeNoOp ==
    Scenario2Ran =>
        /\ position = Position(5, 1)
        /\ direction = E
        /\ str(Self) = "5 1 E"
        /\ \E k \in 1..Len(calls) :
               /\ calls[k].cmd = "A"
               /\ calls[k].dir = E
               /\ calls[k].at.x = ScenarioMax
               /\ ~calls[k].moved

\* C14 amended: a Mow at (3,3) heading E on Grid(0,0,5,5), after
\* execute_path("AADAADADDA"), is at (5,1) heading E and str gives "5 1 E";
\* every advance of the path moves the Mow, none is attempted off the grid.
C14_Scenario2 ==
    Scenario2Ran =>
        /\ err = NoError
        /\ position = Position(5, 1)
        /\ direction = E
        /\ str(Self) = "5 1 E"
        /\ \A k \in 1..Len(calls) : calls[k].cmd = "A" => calls[k].moved

\* C14 witness: scenario 2 has run; its last advance went from (4,1) to
\* the east edge.
C14_Witness ==
    /\ Scenario2Ran
    /\ Len(calls) = Len(Scenario2Path)
    /\ calls[Len(calls)].at = Position(4, 1)
    /\ position = Position(5, 1)

----------------------------------------------------------------------------
(* Grid *)

\* C15: is_inbound(p) is true iff x_min <= x <= x_max and y_min <= y <= y_max:
\* true at the boundary values and corners, false as soon as a coordinate is
\* strictly outside its range, and it changes neither grid nor position.
C15_IsInbound ==
    call.op = "is_inbound" =>
        LET g == TheGrid(call.grid)
            x == call.pos.x
            y == call.pos.y
            outside == x < g.x_min \/ x > g.x_max \/ y < g.y_min \/ y > g.y_max
            ordered == g.x_min <= g.x_max /\ g.y_min <= g.y_max
        IN  /\ outside => ret = <<FALSE>>
            /\ ~outside => ret = <<TRUE>>
            /\ (ordered /\ x \in {g.x_min, g.x_max} /\ y \in {g.y_min, g.y_max})
                   => ret = <<TRUE>>
            /\ (ordered /\ x \in {g.x_min - 1, g.x_max + 1}) => ret = <<FALSE>>
            /\ (ordered /\ y \in {g.y_min - 1, g.y_max + 1}) => ret = <<FALSE>>
            /\ Self = pre

\* C15 witness: the upper right corner of a grid of more than one cell,
\* held by the Mow, was found inbound.
C15_Witness ==
    /\ call.op = "is_inbound"
    /\ call.grid = grid
    /\ TheGrid(call.grid).x_min < TheGrid(call.grid).x_max
    /\ call.pos = Position(TheGrid(call.grid).x_max, TheGrid(call.grid).y_max)
    /\ ret = <<TRUE>>

----------------------------------------------------------------------------
(* Setters and placement *)

\* C17: the setters check no bounds and never fail: setting the position,
\* inside or outside any grid, before or after association, changes only the
\* position; setting the heading changes only the heading; an Unbound Mow
\* can be placed out of bounds, and a later associate_to_grid is judged on
\* the position current at that call alone.
C17_Setters ==
    /\ call.op = "position" =>
           /\ err = NoError
           /\ position = call.pos
           /\ direction = pre.direction
           /\ grid = pre.grid
    /\ call.op = "direction" =>
           /\ err = NoError
           /\ direction = call.dir
           /\ position = pre.position
           /\ grid = pre.grid
    /\ (call.op = "associate_to_grid" /\ ~WasBound) =>
           ((err = NoError) <=> is_inbound(TheGrid(call.grid), pre.position))

\* C17 witness: the setter has put a Bound Mow outside its grid, without
\* error.
C17_Witness ==
    /\ call.op = "position"
    /\ WasBound
    /\ is_inbound(TheGrid(pre.grid), pre.position)
    /\ ~is_inbound(TheGrid(grid), position)
    /\ err = NoError

\* C19: with the position setter never called after a successful
\* association, every Bound state has its position inbound for its grid,
\* and execute_path on a Bound Mow never raises.
C19_PlacedInbound ==
    /\ Bound => \E g \in Grids : grid = Some(g) /\ is_inbound(g, position)
    /\ (call.op = "execute_path" /\ WasBound) => err = NoError

\* C19 witness: a path run on a Bound Mow has tried to leave the grid and
\* left the Mow on its edge.
C19_Witness ==
    /\ call.op = "execute_path"
    /\ WasBound
    /\ \E k \in 1..Len(calls) : calls[k].cmd = "A" /\ ~calls[k].moved
    /\ \E k \in 1..Len(calls) : calls[k].cmd = "A" /\ calls[k].moved
    /\ err = NoError

----------------------------------------------------------------------------
(* Two Mows on one Grid *)

\* the fields of a Mow created as m after the calls of log, made on it alone
RECURSIVE Replay(_, _)
Replay(m, log) ==
    IF log = <<>>
    THEN m
    ELSE Replay(Fields(apply(m, Head(log))), Tail(log))

\* C20: Mows sharing one Grid are independent: no call changes the bounds
\* of the Grid, and whatever the interleaving of the calls made on the two
\* Mows, each Mow has the position, heading and grid that its own calls,
\* run alone from its creation, give it.
C20_Independent ==
    fleet.who # 0 =>
        /\ fleet.shared = SharedGrid
        /\ Self = Replay(fleet.inits[1], fleet.logs[1])
        /\ fleet.other = Replay(fleet.inits[2], fleet.logs[2])
        /\ Bound => grid = Some(fleet.shared)
        /\ fleet.other.grid # None => fleet.other.grid = Some(fleet.shared)

\* C20 witness: both Mows are associated to the shared Grid and have been
\* moved on it to different cells, the last call being made on the first.
C20_Witness ==
    /\ fleet.who = 1
    /\ Len(fleet.logs[1]) = MaxOps
    /\ Len(fleet.logs[2]) = MaxOps
    /\ grid = Some(fleet.shared)
    /\ fleet.other.grid = Some(fleet.shared)
    /\ position # fleet.inits[1].position
    /\ fleet.other.position # fleet.inits[2].position
    /\ position # fleet.other.position

====
